---- MODULE Spec2Model ----
(***************************************************************************)
(* Pocket Organic Tester: the predictor (models/predict.py), the HTTP      *)
(* routes (routes/scan_routes.py, app.py) and the trainer                  *)
(* (models/train_models.py).                                               *)
(*                                                                         *)
(* Python values are modelled by the way the code can tell them apart:     *)
(* an element of a spectral vector is one of the kinds of Kinds, a string  *)
(* (message, exception text) is a sequence of text tokens, an exception is *)
(* a record [type, text].                                                  *)
(***************************************************************************)
EXTENDS Integers, Sequences, FiniteSets, TLC

\* ------------------------------------------------------------------ bounds
\* longest spectral vector tried (the required length is NumChannels)
MaxLen == 9
\* longest batch handed to predict_batch
MaxBatch == 2
\* number of request threads of the threaded server
NThreads == 2
\* successful disk loads of one artifact after which no new call is started
MaxLoads == 2
\* longest Fruit column of a dataset (a row stands for the rows of a label)
MaxRows == 3

\* ------------------------------------------------------- program constants
NumChannels == 8

Artifacts == <<"fruit", "encoder", "organic">>
ArtifactSet == {"fruit", "encoder", "organic"}

\* classes_ of the label encoder written by the trainer
Fruits == <<"Apple", "Banana", "Tomato">>

\* ----------------------------------------------------------- Python values
\* num: a float in [0,1] (0.5)      out: a finite float outside [0,1] (1.5)
\* nan, inf, ninf: float('nan'), float('inf'), -float('inf')
\* bool: True     bigint: 10**400 (an int beyond the float range)
\* numstr: "0.5"  str: "invalid"   none: None   list: [0.5]   dict: {}
Kinds == {"num", "out", "nan", "inf", "ninf", "bool", "bigint",
          "numstr", "str", "none", "list", "dict"}

\* type(value).__name__
TypeName(e) ==
  CASE e \in {"num", "out", "nan", "inf", "ninf"} -> "float"
    [] e = "bool" -> "bool"
    [] e = "bigint" -> "int"
    [] e \in {"numstr", "str"} -> "str"
    [] e = "none" -> "NoneType"
    [] e = "list" -> "list"
    [] e = "dict" -> "dict"

\* isinstance(value, (int, float)): bool is a subclass of int
IsIntOrFloat(e) == TypeName(e) \in {"int", "float", "bool"}

\* -float('inf') < value < float('inf')
StrictlyBetweenInfs(e) == e \in {"num", "out", "bool", "bigint"}

NoExc == [type |-> "none", text |-> << >>]
Exc(t, txt) == [type |-> t, text |-> txt]

\* str(e) of an exception; an f-string is the concatenation of its parts
Str(e) == e.text

\* Python's exception hierarchy, as far as the except clauses of the code
\* can see it
IsInstance(e, cls) ==
  \/ e.type = cls
  \/ cls = "Exception" /\ e.type # "none"

\* the text txt occurs in the message msg
Contains(msg, txt) ==
  /\ Len(txt) > 0
  /\ \E i \in 1..Len(msg) :
       /\ i + Len(txt) - 1 <= Len(msg)
       /\ SubSeq(msg, i, i + Len(txt) - 1) = txt

\* a collection: coll is the Python type of the value, elems its elements
Coll(c, es) == [coll |-> c, elems |-> es]

Uniform(n, b) == [i \in 1..n |-> b]

\* vectors of the required length: one background kind, at most one other
\* kind at one position
Vectors8 ==
  {[Uniform(NumChannels, b) EXCEPT ![i] = k] :
      b \in Kinds, i \in 1..NumChannels, k \in Kinds}

\* vectors of the other lengths: one kind throughout
VectorsOther ==
  {Uniform(n, b) : n \in (0..MaxLen) \ {NumChannels}, b \in Kinds}

Vectors == Vectors8 \cup VectorsOther

\* values that are not a list, tuple or array
Scalars == {Coll(c, << >>) : c \in {"str", "dict", "none", "number", "bool"}}

\* arguments of a direct call of predict_spectrum
PredictInputs ==
  {Coll("list", v) : v \in Vectors}
    \cup {Coll("tuple", Uniform(n, b)) : n \in {NumChannels - 1, NumChannels},
                                         b \in Kinds}
    \cup Scalars

\* values of the spectral_values field of a JSON object (JSON has no tuple)
JsonValues == {Coll("list", v) : v \in Vectors} \cup Scalars

\* ------------------------------------------------------------- numpy
\* float(value) of one element, where it succeeds: True is 1.0, "0.5" is
\* parsed, None becomes nan; [0.5] stands for its element in a 2-d array
ToFloat(e) ==
  CASE e \in {"num", "bool", "numstr", "list"} -> "num"
    [] e = "none" -> "nan"
    [] OTHER -> e

\* the exception numpy raises for an element it cannot convert
ConvFail(e) ==
  CASE e = "str" ->
         Exc("ValueError", <<"could not convert string to float: ", "'invalid'">>)
    [] e = "dict" ->
         Exc("TypeError",
             <<"float() argument must be a string or a real number, not 'dict'">>)
    [] e = "bigint" ->
         Exc("OverflowError", <<"int too large to convert to float">>)
    [] e = "list" ->
         Exc("ValueError", <<"setting an array element with a sequence.">>)

Min(S) == CHOOSE x \in S : \A y \in S : x <= y

\* np.array(values, dtype=float): the set of outcomes the numpy versions
\* produce. Eight one-element lists make a valid 8x1 array; a list among
\* scalars is a ragged input, reported either when the shape is discovered
\* or when the element is converted.
NpArray(elems) ==
  LET n == Len(elems)
      hasList == \E i \in 1..n : elems[i] = "list"
      allList == n > 0 /\ \A i \in 1..n : elems[i] = "list"
      ragged == hasList /\ ~allList
      bad == {i \in 1..n : \/ elems[i] \in {"str", "dict", "bigint"}
                           \/ elems[i] = "list" /\ ragged}
  IN IF bad = {}
       THEN {[exc |-> NoExc, arr |-> [i \in 1..n |-> ToFloat(elems[i])]]}
       ELSE {[exc |-> ConvFail(elems[Min(bad)]), arr |-> << >>]}
              \cup (IF ragged
                      THEN {[exc |-> ConvFail("list"), arr |-> << >>]}
                      ELSE {})

\* ------------------------------------------------- validate_spectral_input
LengthError_NoCount(n) ==
  Exc("ValueError", <<"spectral_values must contain exactly 8 values">>)

\* the error raised for a collection of n # 8 elements
LengthError(n) ==
  Exc("ValueError",
      <<"spectral_values must contain exactly 8 values, got ", ToString(n)>>)

\* the set of outcomes [exc, arr, warned]; exc = NoExc when the array arr is
\* returned, warned when the range warning was printed
ValidateSpectralInput(sv) ==
  IF sv.coll \notin {"list", "tuple", "ndarray"}
    THEN {[exc |-> Exc("TypeError",
                       <<"spectral_values must be a list, tuple, or numpy array">>),
           arr |-> << >>, warned |-> FALSE]}
  ELSE IF Len(sv.elems) # NumChannels
    THEN {[exc |-> LengthError(Len(sv.elems)), arr |-> << >>,
           warned |-> FALSE]}
  ELSE
    {IF c.exc.type \in {"ValueError", "TypeError"}
       THEN [exc |-> Exc("TypeError",
                         <<"All spectral values must be numeric: ">> \o Str(c.exc)),
             arr |-> << >>, warned |-> FALSE]
     ELSE IF c.exc # NoExc
       THEN [exc |-> c.exc, arr |-> << >>, warned |-> FALSE]
     ELSE IF \E i \in 1..Len(c.arr) : c.arr[i] = "nan"
       THEN [exc |-> Exc("ValueError", <<"spectral_values contains NaN values">>),
             arr |-> << >>, warned |-> FALSE]
     ELSE IF \E i \in 1..Len(c.arr) : c.arr[i] \in {"inf", "ninf"}
       THEN [exc |-> Exc("ValueError",
                         <<"spectral_values contains infinite values">>),
             arr |-> << >>, warned |-> FALSE]
     ELSE [exc |-> NoExc, arr |-> c.arr,
           warned |-> \E i \in 1..Len(c.arr) : c.arr[i] = "out"]
     : c \in NpArray(sv.elems)}

\* --------------------------------------------------------------- artifacts
\* content of an artifact file: absent, ok (what the trainer wrote), corrupt
\* (joblib.load raises); the organic-models file can also be stale: a
\* loadable mapping written by a run that did not know the last fruit
Contents(a) ==
  IF a = "organic" THEN {"absent", "ok", "corrupt", "stale"}
                   ELSE {"absent", "ok", "corrupt"}

FileStates == {f \in [ArtifactSet -> {"absent", "ok", "corrupt", "stale"}] :
                 \A a \in ArtifactSet : f[a] \in Contents(a)}

ArtifactPath(a) ==
  CASE a = "fruit" -> "models/fruit_model.pkl"
    [] a = "encoder" -> "models/label_encoder.pkl"
    [] a = "organic" -> "models/organic_models.pkl"

ArtifactTitle(a) ==
  CASE a = "fruit" -> "Fruit model not found at "
    [] a = "encoder" -> "Label encoder not found at "
    [] a = "organic" -> "Organic models not found at "

\* a cached object: id 0 is None, two objects are the same object iff they
\* have the same id; content is what was deserialized
None == [id |-> 0, content |-> "none"]

\* the object a joblib.load returns: not the object cur that is cached now
FreshObject(cur, content) ==
  [id |-> IF cur.id = 1 THEN 2 ELSE 1, content |-> content]

\* the exception joblib.load raises on a file of the given content
JoblibFail(content) ==
  IF content = "absent"
    THEN Exc("FileNotFoundError", <<"[Errno 2] No such file or directory">>)
    ELSE Exc("UnpicklingError", <<"pickle data was truncated">>)

\* the keys of a loaded organic-models mapping
OrganicKeys(obj) ==
  CASE obj.content = "ok" -> {Fruits[i] : i \in 1..Len(Fruits)}
    [] obj.content = "stale" -> {Fruits[i] : i \in 1..(Len(Fruits) - 1)}
    [] OTHER -> {}

\* ------------------------------------------------------------- load_models
Loadable(content) == content \in {"ok", "stale"}

CacheFull(cache) ==
  cache.fruit # None /\ cache.encoder # None /\ cache.organic # None

\* the artifacts whose file is absent, in the order the code checks them
FirstAbsent(files) ==
  Min({i \in 1..Len(Artifacts) : files[Artifacts[i]] = "absent"})

\* the failure of load_models for the first absent file
NotFound(cache, i) ==
  [exc |-> Exc("FileNotFoundError",
               <<ArtifactTitle(Artifacts[i]), ArtifactPath(Artifacts[i])>>),
   cache |-> cache, ret |-> cache, exists |-> i, reads |-> << >>]

\* joblib.load of the artifacts order[i], order[i+1], ... into the globals
RECURSIVE LoadInOrder(_, _, _, _)
LoadInOrder(order, i, cache, files) ==
  IF i > Len(order)
    THEN [exc |-> NoExc, cache |-> cache, ret |-> cache,
          exists |-> 3, reads |-> order]
  ELSE IF ~Loadable(files[order[i]])
    THEN [exc |-> Exc("Exception",
                      <<"Error loading models: ">>
                        \o Str(JoblibFail(files[order[i]]))),
          cache |-> cache, ret |-> cache,
          exists |-> 3, reads |-> SubSeq(order, 1, i)]
  ELSE LoadInOrder(order, i + 1,
                   [cache EXCEPT
                      ![order[i]] = FreshObject(cache[order[i]], files[order[i]])],
                   files)

LoadFromDisk_CheckFirstOnly(cache, files) ==
  IF files.fruit = "absent"
    THEN NotFound(cache, 1)
    ELSE LoadInOrder(Artifacts, 1, cache, files)

\* load_models past the test of the globals: the existence checks and the
\* three loads
LoadFromDisk(cache, files) ==
  IF \E a \in ArtifactSet : files[a] = "absent"
    THEN LET i == FirstAbsent(files)
         IN [exc |-> Exc("FileNotFoundError",
                         <<ArtifactTitle(Artifacts[i]), ArtifactPath(Artifacts[i])>>),
             cache |-> cache, ret |-> cache, exists |-> i, reads |-> << >>]
  ELSE IF ~Loadable(files.fruit)
    THEN [exc |-> Exc("Exception",
                      <<"Error loading models: ">> \o Str(JoblibFail(files.fruit))),
          cache |-> cache, ret |-> cache,
          exists |-> 3, reads |-> <<"fruit">>]
  ELSE LET c1 == [cache EXCEPT !.fruit = FreshObject(cache.fruit, files.fruit)]
       IN IF ~Loadable(files.encoder)
            THEN [exc |-> Exc("Exception",
                              <<"Error loading models: ">>
                                \o Str(JoblibFail(files.encoder))),
                  cache |-> c1, ret |-> c1,
                  exists |-> 3, reads |-> <<"fruit", "encoder">>]
          ELSE LET c2 == [c1 EXCEPT
                            !.encoder = FreshObject(c1.encoder, files.encoder)]
               IN IF ~Loadable(files.organic)
                    THEN [exc |-> Exc("Exception",
                                      <<"Error loading models: ">>
                                        \o Str(JoblibFail(files.organic))),
                          cache |-> c2, ret |-> c2,
                          exists |-> 3, reads |-> <<"fruit", "encoder", "organic">>]
                  ELSE LET c3 == [c2 EXCEPT
                                    !.organic =
                                       FreshObject(c2.organic, files.organic)]
                       IN [exc |-> NoExc, cache |-> c3, ret |-> c3,
                           exists |-> 3,
                           reads |-> <<"fruit", "encoder", "organic">>]

LoadModels_NoCacheTest(cache, files) == LoadFromDisk(cache, files)

\* One call of load_models on the cache and the files, run to its end.
\* exc: the exception raised (NoExc: the tuple ret is returned); cache: the
\* module globals afterwards; exists: number of os.path.exists calls;
\* reads: the artifacts handed to joblib.load, in order.
LoadModels(cache, files) ==
  IF CacheFull(cache)
    THEN [exc |-> NoExc, cache |-> cache, ret |-> cache,
          exists |-> 0, reads |-> << >>]
    ELSE LoadFromDisk(cache, files)

\* -------------------------------------------------------- predict_spectrum
\* probabilities in units of 1e-5: predict_proba at the predicted class of
\* the 3-class fruit model and of a binary organic model
\* what a loaded model can answer: <<predicted class, its probability>>
FruitOutputs == {<<0, 40004>>, <<1, 100000>>, <<2, 66667>>}
OrganicOutputs == {<<0, 50000>>, <<1, 99996>>}

Round4_Percent(p) == p * 100

\* round(p, 4), in units of 1e-5
Round4(p) == ((p + 5) \div 10) * 10

NoDict == << >>

\* the model stage (the try block) on the validated array and the loaded
\* triple: the set of outcomes [exc, result, runs]; runs counts the models
\* that were run
ModelStage(arr, models) ==
  UNION {
    LET fruit_prediction == fo[1]
        fruit_name == Fruits[fruit_prediction + 1]
    IN IF fruit_name \notin OrganicKeys(models.organic)
         THEN {[exc |-> Exc("Exception",
                            <<"Prediction failed: ">>
                              \o <<"No organic model found for fruit: ", fruit_name>>),
                result |-> NoDict, runs |-> 1]}
         ELSE {[exc |-> NoExc,
                result |->
                  [fruit |-> fruit_name,
                   organic_status |->
                     IF oo[1] = 1 THEN "Organic" ELSE "Non-Organic",
                   fruit_confidence |-> Round4(fo[2]),
                   organic_confidence |-> Round4(oo[2])],
                runs |-> 2]
               : oo \in OrganicOutputs}
    : fo \in FruitOutputs}

PredictSpectrum_LoadFirst(sv, cache, files) ==
  LET l == LoadModels(cache, files)
  IN UNION {
       IF l.exc # NoExc
         THEN {[exc |-> l.exc, result |-> NoDict, cache |-> l.cache,
                loadCalls |-> 1, exists |-> l.exists, reads |-> l.reads,
                runs |-> 0, warned |-> FALSE]}
       ELSE IF v.exc # NoExc
         THEN {[exc |-> v.exc, result |-> NoDict, cache |-> l.cache,
                loadCalls |-> 1, exists |-> l.exists, reads |-> l.reads,
                runs |-> 0, warned |-> FALSE]}
       ELSE {[exc |-> m.exc, result |-> m.result, cache |-> l.cache,
              loadCalls |-> 1, exists |-> l.exists, reads |-> l.reads,
              runs |-> m.runs, warned |-> v.warned]
             : m \in ModelStage(v.arr, l.ret)}
       : v \in ValidateSpectralInput(sv)}

\* One call of predict_spectrum: the set of outcomes
\* [exc, result, cache, loadCalls, exists, reads, runs, warned]
PredictSpectrum(sv, cache, files) ==
  UNION {
    IF v.exc # NoExc
      THEN {[exc |-> v.exc, result |-> NoDict, cache |-> cache, loadCalls |-> 0,
             exists |-> 0, reads |-> << >>, runs |-> 0, warned |-> FALSE]}
      ELSE LET l == LoadModels(cache, files)
           IN IF l.exc # NoExc
                THEN {[exc |-> l.exc, result |-> NoDict, cache |-> l.cache,
                       loadCalls |-> 1, exists |-> l.exists, reads |-> l.reads,
                       runs |-> 0, warned |-> v.warned]}
                ELSE {[exc |-> m.exc, result |-> m.result, cache |-> l.cache,
                       loadCalls |-> 1, exists |-> l.exists, reads |-> l.reads,
                       runs |-> m.runs, warned |-> v.warned]
                      : m \in ModelStage(v.arr, l.ret)}
    : v \in ValidateSpectralInput(sv)}

\* ----------------------------------------------------------- predict_batch
BatchEntry_OneBased(o, idx) ==
  IF o.exc = NoExc
    THEN [fruit |-> o.result.fruit,
          organic_status |-> o.result.organic_status,
          fruit_confidence |-> o.result.fruit_confidence,
          organic_confidence |-> o.result.organic_confidence,
          sample_index |-> idx + 1]
    ELSE [sample_index |-> idx + 1, error |-> Str(o.exc)]

\* the entry appended for the sample at 0-based position idx
BatchEntry(o, idx) ==
  IF o.exc = NoExc
    THEN [fruit |-> o.result.fruit,
          organic_status |-> o.result.organic_status,
          fruit_confidence |-> o.result.fruit_confidence,
          organic_confidence |-> o.result.organic_confidence,
          sample_index |-> idx]
    ELSE [sample_index |-> idx, error |-> Str(o.exc)]

\* the loop of predict_batch from position i (1-based) on: the set of
\* outcomes [exc, results, cache, calls]; exc is an exception the loop did
\* not catch
RECURSIVE BatchLoop(_, _, _, _, _)
BatchLoop(batch, i, cache, files, results) ==
  IF i > Len(batch)
    THEN {[exc |-> NoExc, results |-> results, cache |-> cache,
           calls |-> Len(batch)]}
    ELSE UNION {
           IF o.exc = NoExc \/ IsInstance(o.exc, "Exception")
             THEN BatchLoop(batch, i + 1, o.cache, files,
                            Append(results, BatchEntry(o, i - 1)))
             ELSE {[exc |-> o.exc, results |-> results, cache |-> o.cache,
                    calls |-> i]}
           : o \in PredictSpectrum(batch[i], cache, files)}

PredictBatch(batch, cache, files) == BatchLoop(batch, 1, cache, files, << >>)

\* --------------------------------------------------------- POST /api/scan
\* A request body: kind is what the bytes are (invalid: not JSON; else the
\* JSON type), hasKey whether `'spectral_values' in data` is true of the
\* parsed value (a key of the object, an element of the array, a substring
\* of the string), value the spectral_values member of an object.
Body(k, h, v) == [kind |-> k, hasKey |-> h, value |-> v]

NoValue == Coll("none", << >>)

Bodies ==
  {Body(k, FALSE, NoValue) : k \in {"invalid", "null", "number", "bool"}}
    \cup {Body(k, h, NoValue) : k \in {"string", "array"}, h \in BOOLEAN}
    \cup {Body("object", FALSE, NoValue)}
    \cup {Body("object", TRUE, v) : v \in JsonValues}

\* request.get_json(): BadRequest for a body that is not JSON
GetJsonFail(body) ==
  IF body.kind = "invalid"
    THEN Exc("BadRequest",
             <<"400 Bad Request: ",
               "The browser (or proxy) sent a request that this server could not understand.">>)
    ELSE NoExc

\* `'spectral_values' in data`: not defined on a number or a boolean
InFail(body) ==
  CASE body.kind = "number" ->
         Exc("TypeError", <<"argument of type 'int' is not iterable">>)
    [] body.kind = "bool" ->
         Exc("TypeError", <<"argument of type 'bool' is not iterable">>)
    [] OTHER -> NoExc

\* data['spectral_values']: only an object can be indexed by a string
IndexFail(body) ==
  CASE body.kind = "string" ->
         Exc("TypeError", <<"string indices must be integers">>)
    [] body.kind = "array" ->
         Exc("TypeError", <<"list indices must be integers or slices, not str">>)
    [] OTHER -> NoExc

\* the first element the loop of the route rejects (0 if none), 1-based
FirstRejected(elems) ==
  LET bad == {i \in 1..Len(elems) :
                ~IsIntOrFloat(elems[i]) \/ ~StrictlyBetweenInfs(elems[i])}
  IN IF bad = {} THEN 0 ELSE Min(bad)

\* a response that does not come from the predictor
Reply(status, error, message, exc, cache) ==
  [status |-> status, json |-> [error |-> error, message |-> message],
   exc |-> exc, cache |-> cache, predictCalls |-> 0, loadCalls |-> 0,
   exists |-> 0, reads |-> << >>, runs |-> 0, warned |-> FALSE]

\* the response built from the outcome o of predict_spectrum
PredictReply(o) ==
  LET r(status, json) ==
        [status |-> status, json |-> json, exc |-> o.exc, cache |-> o.cache,
         predictCalls |-> 1, loadCalls |-> o.loadCalls, exists |-> o.exists,
         reads |-> o.reads, runs |-> o.runs, warned |-> o.warned]
  IN IF o.exc = NoExc
       THEN r(200, [success |-> TRUE, data |-> o.result])
     ELSE IF IsInstance(o.exc, "ValueError")
       THEN r(400, [error |-> "Validation error", message |-> Str(o.exc)])
     ELSE IF IsInstance(o.exc, "TypeError")
       THEN r(400, [error |-> "Type error", message |-> Str(o.exc)])
     ELSE IF IsInstance(o.exc, "FileNotFoundError")
       THEN r(500, [error |-> "Model not found",
                    message |->
                      <<"Machine learning models are not available. Please train models first.">>])
     ELSE r(500, [error |-> "Prediction error",
                  message |->
                    <<"An error occurred during prediction: ">> \o Str(o.exc)])

\* the outermost except clause of the route
CatchAll(e, cache) ==
  Reply(500, "Internal server error",
        <<"An unexpected error occurred: ">> \o Str(e), e, cache)

\* One POST /api/scan: the set of responses
\* [status, json, exc, cache, predictCalls, loadCalls, exists, reads, runs,
\*  warned]; exc is the exception the handler caught
Scan(body, cache, files) ==
  IF GetJsonFail(body) # NoExc
    THEN {CatchAll(GetJsonFail(body), cache)}
  ELSE IF body.kind = "null"
    THEN {Reply(400, "Invalid request", <<"Request body must be valid JSON">>,
                NoExc, cache)}
  ELSE IF InFail(body) # NoExc
    THEN {CatchAll(InFail(body), cache)}
  ELSE IF ~body.hasKey
    THEN {Reply(400, "Missing field",
                <<"Request must include \"spectral_values\" field">>,
                NoExc, cache)}
  ELSE IF IndexFail(body) # NoExc
    THEN {CatchAll(IndexFail(body), cache)}
  ELSE IF body.value.coll \notin {"list", "tuple"}
    THEN {Reply(400, "Invalid data type",
                <<"spectral_values must be a list or array">>, NoExc, cache)}
  ELSE IF Len(body.value.elems) # NumChannels
    THEN {Reply(400, "Invalid input size",
                <<"spectral_values must contain exactly 8 values, got ",
                  ToString(Len(body.value.elems))>>, NoExc, cache)}
  ELSE LET idx == FirstRejected(body.value.elems)
       IN IF idx # 0 /\ ~IsIntOrFloat(body.value.elems[idx])
            THEN {Reply(400, "Invalid data type",
                        <<"All spectral values must be numeric. Value at index ",
                          ToString(idx - 1), " is ",
                          TypeName(body.value.elems[idx])>>, NoExc, cache)}
          ELSE IF idx # 0
            THEN {Reply(400, "Invalid value",
                        <<"spectral_values contains invalid numeric value at index ",
                          ToString(idx - 1)>>, NoExc, cache)}
          ELSE {PredictReply(o) : o \in PredictSpectrum(body.value, cache, files)}

\* -------------------------------------------------------- GET /api/health
\* One GET /api/health: the response, with the load_models call it made
HealthCheck(cache, files) ==
  LET l == LoadModels(cache, files)
      r(status, json) ==
        [status |-> status, json |-> json, exc |-> l.exc, cache |-> l.cache,
         predictCalls |-> 0, loadCalls |-> 1, exists |-> l.exists,
         reads |-> l.reads, runs |-> 0, warned |-> FALSE]
  IN IF l.exc = NoExc
       THEN r(200, [status |-> "healthy", service |-> "Organic Tester API",
                    models_loaded |-> TRUE])
       ELSE r(500, [status |-> "unhealthy", service |-> "Organic Tester API",
                    models_loaded |-> FALSE, error |-> Str(l.exc)])

\* ======================================================= the Flask application
\* The URL map of create_app: the blueprint's rules under /api and the
\* root rule. Flask adds OPTIONS to every rule and HEAD to the GET rules.
Rules ==
  {[rule |-> "/api/scan", methods |-> {"POST"}, endpoint |-> "scan.scan"],
   [rule |-> "/api/health", methods |-> {"GET"},
    endpoint |-> "scan.health_check"],
   [rule |-> "/api/info", methods |-> {"GET"}, endpoint |-> "scan.info"],
   [rule |-> "/", methods |-> {"GET"}, endpoint |-> "index"]}

Allowed(r) ==
  r.methods \cup {"OPTIONS"}
    \cup (IF "GET" \in r.methods THEN {"HEAD"} ELSE {})

HttpMethods == {"GET", "POST", "PUT", "DELETE", "HEAD", "OPTIONS"}

Paths == {r.rule : r \in Rules} \cup {"/api/unknown", "/scan"}

\* the routing step: the endpoint of the rule, or the routing exception
MatchRequest(method, path) ==
  LET rs == {r \in Rules : r.rule = path}
  IN IF rs = {} THEN [endpoint |-> "", exc |-> "NotFound", code |-> 404]
     ELSE LET r == CHOOSE r \in rs : TRUE
          IN IF method \in Allowed(r)
               THEN [endpoint |-> r.endpoint, exc |-> "", code |-> 0]
               ELSE [endpoint |-> "", exc |-> "MethodNotAllowed",
                     code |-> 405]

\* the registered error handlers: scope ("app" or the blueprint's name),
\* code (0 for a handler registered for an exception class) and class
ErrorHandlers ==
  {[scope |-> "app", code |-> 404, cls |-> "NotFound",
    handler |-> "not_found"],
   [scope |-> "app", code |-> 500, cls |-> "InternalServerError",
    handler |-> "internal_error"],
   [scope |-> "app", code |-> 0, cls |-> "Exception",
    handler |-> "handle_exception"],
   [scope |-> "scan", code |-> 404, cls |-> "NotFound",
    handler |-> "scan.not_found"],
   [scope |-> "scan", code |-> 405, cls |-> "MethodNotAllowed",
    handler |-> "scan.method_not_allowed"]}

\* the classes of the routing exceptions, most specific first
Mro(cls) == <<cls, "HTTPException", "Exception">>

\* The scopes searched for a handler. A routing exception is raised before
\* a rule is matched, so the request has no blueprint and only the
\* application's handlers are searched.
HandlerScopes(endpoint) ==
  IF endpoint \in {"scan.scan", "scan.health_check", "scan.info"}
    THEN <<"scan", "app">>
    ELSE <<"app">>

\* The handler Flask finds for an HTTP exception ("" if none). Flask from
\* 1.0 on searches the handlers of the code, then the handlers registered
\* for a class; before 1.0 an HTTP exception only has the handlers of its
\* code.
FindErrorHandler(cls, code, endpoint, flask) ==
  LET scopes == HandlerScopes(endpoint)
      codes == IF flask = "1.0" THEN <<code, 0>> ELSE <<code>>
      found(c, n, k) ==
        {h \in ErrorHandlers :
           /\ h.scope = scopes[n]
           /\ h.code = codes[c]
           /\ h.cls = Mro(cls)[k]}
      hits == {<<c, n, k>> \in (1..Len(codes)) \X (1..Len(scopes)) \X (1..3) :
                 found(c, n, k) # {}}
      before(x, y) ==
        \/ x[1] < y[1]
        \/ x[1] = y[1] /\ x[2] < y[2]
        \/ x[1] = y[1] /\ x[2] = y[2] /\ x[3] <= y[3]
  IN IF hits = {} THEN ""
     ELSE LET first == CHOOSE x \in hits : \A y \in hits : before(x, y)
          IN (CHOOSE h \in found(first[1], first[2], first[3]) : TRUE).handler

FlaskVersions == {"0.12", "1.0"}

\* the response of an error handler, or werkzeug's HTML page without one
ErrorResponse(handler, code, cache) ==
  LET r(status, json) ==
        [status |-> status, json |-> json, exc |-> NoExc, cache |-> cache,
         predictCalls |-> 0, loadCalls |-> 0, exists |-> 0,
         reads |-> << >>, runs |-> 0, warned |-> FALSE]
  IN CASE handler = "not_found" ->
            r(404, [error |-> "Not found",
                    message |-> <<"The requested resource does not exist">>,
                    status |-> 404])
       [] handler \in {"internal_error", "handle_exception"} ->
            r(500, [error |-> "Internal server error",
                    message |-> <<"An unexpected error occurred">>,
                    status |-> 500])
       [] handler = "scan.not_found" ->
            r(404, [error |-> "Not found",
                    message |-> <<"The requested endpoint does not exist">>])
       [] handler = "scan.method_not_allowed" ->
            r(405, [error |-> "Method not allowed",
                    message |->
                      <<"The HTTP method is not allowed for this endpoint">>])
       [] OTHER -> r(code, NoDict)

\* index and info answer a fixed document
StaticResponse(cache) ==
  [status |-> 200, json |-> [version |-> "1.0.0"], exc |-> NoExc,
   cache |-> cache, predictCalls |-> 0, loadCalls |-> 0, exists |-> 0,
   reads |-> << >>, runs |-> 0, warned |-> FALSE]

\* Flask's automatic answer to OPTIONS
OptionsResponse(cache) ==
  [status |-> 200, json |-> NoDict, exc |-> NoExc,
   cache |-> cache, predictCalls |-> 0, loadCalls |-> 0, exists |-> 0,
   reads |-> << >>, runs |-> 0, warned |-> FALSE]

\* One HTTP request through the application: the set of responses
Dispatch(method, path, body, cache, files) ==
  LET m == MatchRequest(method, path)
  IN IF m.exc # ""
       THEN {ErrorResponse(FindErrorHandler(m.exc, m.code, m.endpoint, v),
                           m.code, cache) : v \in FlaskVersions}
     ELSE IF method = "OPTIONS" THEN {OptionsResponse(cache)}
     ELSE CASE m.endpoint = "scan.scan" -> Scan(body, cache, files)
            [] m.endpoint = "scan.health_check" -> {HealthCheck(cache, files)}
            [] OTHER -> {StaticResponse(cache)}

\* ============================================================== the trainer
\* required_columns of load_data
FeatureColumns == <<"F1", "F2", "F3", "F4", "F5", "F6", "F7", "F8">>
RequiredColumns == FeatureColumns \o <<"Fruit", "Organic">>

Range(seq) == {seq[i] : i \in 1..Len(seq)}

\* A dataset file: whether it exists, the columns of its header, and the
\* labels of its Fruit column in the order of the rows. A row stands for
\* any number of rows of its label: what depends on the number (the
\* stratified splits) is an outcome chosen by the actions.
Dataset(exists, missing, fruit) ==
  [exists |-> exists,
   columns |-> (Range(RequiredColumns) \cup {"Sample_ID"}) \ missing,
   fruit |-> fruit]

Datasets ==
  {Dataset(e, m, f) :
     e \in BOOLEAN,
     m \in SUBSET {"F1", "F8", "Fruit", "Organic"},
     f \in UNION {[1..n -> Range(Fruits)] : n \in 0..MaxRows}}

\* load_data: [exc, df]
LoadData(ds) ==
  LET missing_columns ==
        SelectSeq(RequiredColumns, LAMBDA col : col \notin ds.columns)
  IN IF ~ds.exists
       THEN [exc |-> Exc("FileNotFoundError",
                         <<"Dataset file not found: ",
                           "../data/synthetic_data.csv">>),
             df |-> NoDict]
     ELSE IF "Fruit" \notin ds.columns
       THEN [exc |-> Exc("KeyError", <<"'Fruit'">>), df |-> NoDict]
     ELSE IF "Organic" \notin ds.columns
       THEN [exc |-> Exc("KeyError", <<"'Organic'">>), df |-> NoDict]
     ELSE IF missing_columns # << >>
       THEN [exc |-> Exc("ValueError",
                         <<"Dataset is missing required columns: ">>
                           \o missing_columns),
             df |-> NoDict]
     ELSE [exc |-> NoExc, df |-> ds]

\* df['Fruit'].unique(): the labels in the order of their first row
RECURSIVE Unique(_)
Unique(seq) ==
  IF seq = << >> THEN << >>
  ELSE LET front == Unique(SubSeq(seq, 1, Len(seq) - 1))
           last == seq[Len(seq)]
       IN IF last \in Range(front) THEN front ELSE Append(front, last)

\* the sorted labels (classes_ of a fitted LabelEncoder); the labels of
\* Fruits are in alphabetical order
SortedLabels(labels) == SelectSeq(Fruits, LAMBDA l : l \in labels)

\* what train_test_split raises when the rows cannot be split
SplitError ==
  Exc("ValueError",
      <<"The least populated class in y has only 1 member, which is too few.">>)

\* train_fruit_model: [exc, model, label_encoder, fits]. The model is the
\* set of the classes it can predict, the encoder its classes_. split_ok
\* tells whether the rows allow the stratified split.
TrainFruitModel(df, split_ok) ==
  LET classes_ == SortedLabels(Range(df.fruit))
  IN IF df.fruit = << >> \/ ~split_ok
       THEN [exc |-> SplitError, model |-> {}, label_encoder |-> << >>,
             fits |-> 0]
       ELSE [exc |-> NoExc,
             model |-> {c - 1 : c \in 1..Len(classes_)},
             label_encoder |-> classes_, fits |-> 1]

\* the keys after the loop of train_organic_models has run n times
ModelsFor(df, n) == Range(SubSeq(Unique(df.fruit), 1, n))

TrainOrganicModels_StopEarly(df, fail_at) ==
  LET fruits == Unique(df.fruit)
      n == IF fail_at \in 1..Len(fruits) THEN fail_at - 1 ELSE Len(fruits)
  IN [exc |-> NoExc, organic_models |-> ModelsFor(df, n), fits |-> n]

\* train_organic_models: [exc, organic_models, fits]. organic_models is the
\* key set of the dict; the split of the rows of the fail_at-th fruit
\* fails (0: none fails).
TrainOrganicModels(df, fail_at) ==
  LET fruits == Unique(df.fruit)
  IN IF fail_at \in 1..Len(fruits)
       THEN [exc |-> SplitError, organic_models |-> {},
             fits |-> fail_at - 1]
       ELSE [exc |-> NoExc, organic_models |-> ModelsFor(df, Len(fruits)),
             fits |-> Len(fruits)]

\* nothing has been written for an artifact
NotSaved == [saved |-> FALSE, value |-> {}]

\* save_models: [exc, saved]; the dump_fail-th joblib.dump raises (0: none)
SaveTrained(fruit_model, label_encoder, organic_models, dump_fail) ==
  LET value(a) ==
        CASE a = "fruit" -> fruit_model
          [] a = "encoder" -> label_encoder
          [] a = "organic" -> organic_models
      n == IF dump_fail = 0 THEN Len(Artifacts) ELSE dump_fail - 1
  IN [exc |-> IF dump_fail = 0 THEN NoExc
              ELSE Exc("OSError", <<"[Errno 28] No space left on device">>),
      saved |-> [a \in ArtifactSet |->
                   IF \E i \in 1..n : Artifacts[i] = a
                     THEN [saved |-> TRUE, value |-> value(a)]
                     ELSE NotSaved]]

\* ================================================================= state
VARIABLES
  files,            \* artifact -> content of its file under models/
  _fruit_model,     \* the three module globals of predict.py
  _label_encoder,
  _organic_models,
  request,          \* the call under test, fixed for a behaviour
  response,         \* what the last handler or call answered
  pc,               \* thread -> its position inside load_models
  tret,             \* thread -> how its last load_models call ended
  diskLoads,        \* artifact -> number of joblib.load calls that returned
  loadFailed,       \* some load_models call of a thread has raised
  trainer           \* the run of the trainer's main

vars == <<files, _fruit_model, _label_encoder, _organic_models,
          request, response, pc, tret, diskLoads, loadFailed, trainer>>

cacheVars == <<_fruit_model, _label_encoder, _organic_models>>
threadVars == <<pc, tret, diskLoads, loadFailed>>

Threads == 1..NThreads

Cache ==
  [fruit |-> _fruit_model, encoder |-> _label_encoder,
   organic |-> _organic_models]

SetCache(c) ==
  /\ _fruit_model' = c.fruit
  /\ _label_encoder' = c.encoder
  /\ _organic_models' = c.organic

\* ------------------------------------------------------------- requests
Req(op, body, input, batch) ==
  [op |-> op, body |-> body, input |-> input, batch |-> batch]

NoBody == Body("null", FALSE, NoValue)

\* the samples batches are made of: a valid one, a short one, one with a
\* string, one with a NaN, one with an int beyond the float range, and one
\* that is not a collection
BatchSamples ==
  {Coll("list", Uniform(NumChannels, "num")),
   Coll("list", Uniform(NumChannels - 1, "num")),
   Coll("list", [Uniform(NumChannels, "num") EXCEPT ![3] = "str"]),
   Coll("list", [Uniform(NumChannels, "num") EXCEPT ![8] = "nan"]),
   Coll("list", [Uniform(NumChannels, "num") EXCEPT ![1] = "bigint"]),
   Coll("str", << >>)}

Batches == UNION {[1..n -> BatchSamples] : n \in 0..MaxBatch}

Requests ==
  {Req("scan", b, NoValue, << >>) : b \in Bodies}
    \cup {Req("predict", NoBody, i, << >>) : i \in PredictInputs}
    \cup {Req("batch", NoBody, NoValue, b) : b \in Batches}

NoResponse ==
  [op |-> "none", status |-> 0, json |-> NoDict, exc |-> NoExc,
   result |-> NoDict, before |-> [fruit |-> None, encoder |-> None,
                                  organic |-> None],
   ret |-> [fruit |-> None, encoder |-> None, organic |-> None],
   predictCalls |-> 0, loadCalls |-> 0, exists |-> 0, reads |-> << >>,
   runs |-> 0, warned |-> FALSE]

EmptyCache ==
  /\ _fruit_model = None
  /\ _label_encoder = None
  /\ _organic_models = None

Idle == <<"idle", "">>
AtCheck == <<"check", "">>

\* the trainer before main is run on the dataset ds
Run(ds) ==
  [pc |-> "load_data", dataset |-> ds, exc |-> NoExc, df |-> NoDict,
   fruit_model |-> {}, label_encoder |-> << >>, organic_models |-> {},
   fits |-> 0, saved |-> [a \in ArtifactSet |-> NotSaved]]

NoRun == Run(Dataset(FALSE, {}, << >>))

ThreadsIdle ==
  /\ pc = [t \in Threads |-> Idle]
  /\ tret = [t \in Threads |-> "none"]
  /\ diskLoads = [a \in ArtifactSet |-> 0]
  /\ loadFailed = FALSE

\* a fresh process: nothing loaded, any content of the models directory
Init ==
  /\ files \in FileStates
  /\ EmptyCache
  /\ request \in Requests
  /\ response = NoResponse
  /\ ThreadsIdle
  /\ trainer = NoRun

\* ------------------------------------------------- handlers, run to the end
DoScan ==
  /\ request.op = "scan"
  /\ \E r \in Scan(request.body, Cache, files) :
       /\ SetCache(r.cache)
       /\ response' = [op |-> "scan", status |-> r.status, json |-> r.json,
                       exc |-> r.exc, result |-> NoDict, before |-> Cache,
                       ret |-> r.cache,
                       predictCalls |-> r.predictCalls,
                       loadCalls |-> r.loadCalls, exists |-> r.exists,
                       reads |-> r.reads, runs |-> r.runs, warned |-> r.warned]
  /\ UNCHANGED <<files, request, threadVars, trainer>>

DoPredict ==
  /\ request.op = "predict"
  /\ \E o \in PredictSpectrum(request.input, Cache, files) :
       /\ SetCache(o.cache)
       /\ response' = [op |-> "predict", status |-> 0, json |-> NoDict,
                       exc |-> o.exc, result |-> o.result, before |-> Cache,
                       ret |-> o.cache,
                       predictCalls |-> 1,
                       loadCalls |-> o.loadCalls, exists |-> o.exists,
                       reads |-> o.reads, runs |-> o.runs, warned |-> o.warned]
  /\ UNCHANGED <<files, request, threadVars, trainer>>

DoBatch ==
  /\ request.op = "batch"
  /\ \E o \in PredictBatch(request.batch, Cache, files) :
       /\ SetCache(o.cache)
       /\ response' = [op |-> "batch", status |-> 0, json |-> NoDict,
                       exc |-> o.exc, result |-> o.results, before |-> Cache,
                       ret |-> o.cache,
                       predictCalls |-> o.calls,
                       loadCalls |-> 0, exists |-> 0,
                       reads |-> << >>, runs |-> 0, warned |-> FALSE]
  /\ UNCHANGED <<files, request, threadVars, trainer>>

DoHealth ==
  /\ LET r == HealthCheck(Cache, files)
     IN /\ SetCache(r.cache)
        /\ response' = [op |-> "health", status |-> r.status, json |-> r.json,
                        exc |-> r.exc, result |-> NoDict, before |-> Cache,
                        ret |-> r.cache,
                        predictCalls |-> 0,
                        loadCalls |-> r.loadCalls, exists |-> r.exists,
                        reads |-> r.reads, runs |-> 0, warned |-> FALSE]
  /\ UNCHANGED <<files, request, threadVars, trainer>>

\* ---------------------------------------------------------- environment
\* an artifact file is deleted
RemoveArtifact ==
  /\ \E a \in ArtifactSet :
       /\ files[a] # "absent"
       /\ files' = [files EXCEPT ![a] = "absent"]
  /\ UNCHANGED <<cacheVars, request, response, threadVars, trainer>>

\* the trainer's save_models writes the three artifacts
SaveModels ==
  /\ files # [a \in ArtifactSet |-> "ok"]
  /\ files' = [a \in ArtifactSet |-> "ok"]
  /\ UNCHANGED <<cacheVars, request, response, threadVars, trainer>>

Next ==
  \/ DoScan
  \/ DoPredict
  \/ DoBatch
  \/ DoHealth
  \/ RemoveArtifact
  \/ SaveModels

Spec == Init /\ [][Next]_vars

\* =============================================== load_models, thread by thread
\* The threaded server runs a handler per thread; the handlers share the
\* module globals. A thread's call of load_models (from health_check or
\* from predict_spectrum after validation) is taken statement by statement.

NextArtifact(a) ==
  CASE a = "fruit" -> "encoder"
    [] a = "encoder" -> "organic"
    [] a = "organic" -> "done"

ExistsPc(a) == <<"exists", a>>
LoadPc(a) == <<"load", a>>
InitThreads ==
  /\ files \in FileStates
  /\ EmptyCache
  /\ request = Req("health", NoBody, NoValue, << >>)
  /\ response = NoResponse
  /\ ThreadsIdle
  /\ trainer = NoRun

\* a handler running on thread t calls load_models
TCall(t) ==
  /\ pc[t] = Idle
  /\ \A a \in ArtifactSet : diskLoads[a] < MaxLoads
  /\ pc' = [pc EXCEPT ![t] = AtCheck]
  /\ tret' = [tret EXCEPT ![t] = "none"]
  /\ UNCHANGED <<files, cacheVars, request, response, diskLoads, loadFailed,
               trainer>>

\* the test of the globals: return them, or go on to the files
TCheck(t) ==
  /\ pc[t] = AtCheck
  /\ IF CacheFull(Cache)
       THEN /\ pc' = [pc EXCEPT ![t] = Idle]
            /\ tret' = [tret EXCEPT ![t] = "returned"]
       ELSE /\ pc' = [pc EXCEPT ![t] = ExistsPc("fruit")]
            /\ UNCHANGED tret
  /\ UNCHANGED <<files, cacheVars, request, response, diskLoads, loadFailed,
               trainer>>

\* one os.path.exists test
TExists(t) ==
  /\ \E a \in ArtifactSet :
       /\ pc[t] = ExistsPc(a)
       /\ IF files[a] = "absent"
            THEN /\ pc' = [pc EXCEPT ![t] = Idle]
                 /\ tret' = [tret EXCEPT ![t] = "FileNotFoundError"]
                 /\ loadFailed' = TRUE
            ELSE /\ pc' = [pc EXCEPT ![t] =
                             IF NextArtifact(a) = "done"
                               THEN LoadPc("fruit")
                               ELSE ExistsPc(NextArtifact(a))]
                 /\ UNCHANGED <<tret, loadFailed>>
  /\ UNCHANGED <<files, cacheVars, request, response, diskLoads, trainer>>

\* one `global = joblib.load(path)` statement; after the third, the return
TLoad(t) ==
  /\ \E a \in ArtifactSet :
       /\ pc[t] = LoadPc(a)
       /\ IF Loadable(files[a])
            THEN /\ SetCache([Cache EXCEPT ![a] = FreshObject(Cache[a], files[a])])
                 /\ diskLoads' = [diskLoads EXCEPT ![a] = @ + 1]
                 /\ IF NextArtifact(a) = "done"
                      THEN /\ pc' = [pc EXCEPT ![t] = Idle]
                           /\ tret' = [tret EXCEPT ![t] = "returned"]
                      ELSE /\ pc' = [pc EXCEPT ![t] = LoadPc(NextArtifact(a))]
                           /\ UNCHANGED tret
                 /\ UNCHANGED loadFailed
            ELSE /\ pc' = [pc EXCEPT ![t] = Idle]
                 /\ tret' = [tret EXCEPT ![t] = "Exception"]
                 /\ loadFailed' = TRUE
                 /\ UNCHANGED <<cacheVars, diskLoads>>
  /\ UNCHANGED <<files, request, response, trainer>>

NextThreads ==
  \/ \E t \in Threads : TCall(t)
  \/ \E t \in Threads : TCheck(t)
  \/ \E t \in Threads : TExists(t)
  \/ \E t \in Threads : TLoad(t)
  \/ RemoveArtifact
  \/ SaveModels

SpecThreads == InitThreads /\ [][NextThreads]_vars

\* ------------------------------------------------------- HTTP requests
HttpReq(method, path, body) ==
  [op |-> "http", method |-> method, path |-> path, body |-> body]

HttpBodies ==
  {NoBody,
   Body("object", TRUE, Coll("list", Uniform(NumChannels, "num"))),
   Body("object", TRUE, Coll("list", Uniform(NumChannels - 1, "num")))}

HttpRequests ==
  {HttpReq(m, p, b) : m \in HttpMethods, p \in Paths, b \in HttpBodies}

InitHttp ==
  /\ files \in FileStates
  /\ EmptyCache
  /\ request \in HttpRequests
  /\ response = NoResponse
  /\ ThreadsIdle
  /\ trainer = NoRun

DoDispatch ==
  /\ request.op = "http"
  /\ \E r \in Dispatch(request.method, request.path, request.body,
                       Cache, files) :
       /\ SetCache(r.cache)
       /\ response' = [op |-> "http", status |-> r.status, json |-> r.json,
                       exc |-> r.exc, result |-> NoDict, before |-> Cache,
                       ret |-> r.cache,
                       predictCalls |-> r.predictCalls,
                       loadCalls |-> r.loadCalls, exists |-> r.exists,
                       reads |-> r.reads, runs |-> r.runs, warned |-> r.warned]
  /\ UNCHANGED <<files, request, threadVars, trainer>>

NextHttp ==
  \/ DoDispatch
  \/ RemoveArtifact
  \/ SaveModels

SpecHttp == InitHttp /\ [][NextHttp]_vars

\* ------------------------------------------------------------ the trainer
\* main of train_models.py, one action per function it calls
InitTrainer ==
  /\ files \in FileStates
  /\ EmptyCache
  /\ request = Req("health", NoBody, NoValue, << >>)
  /\ response = NoResponse
  /\ ThreadsIdle
  /\ trainer \in {Run(ds) : ds \in Datasets}

\* an exception leaves main
Raise(e) == trainer' = [trainer EXCEPT !.pc = "raised", !.exc = e]

TrLoadData ==
  /\ trainer.pc = "load_data"
  /\ LET o == LoadData(trainer.dataset)
     IN IF o.exc # NoExc
          THEN Raise(o.exc)
          ELSE trainer' = [trainer EXCEPT !.pc = "train_fruit_model",
                                          !.df = o.df]
  /\ UNCHANGED <<files, cacheVars, request, response, threadVars>>

TrTrainFruitModel ==
  /\ trainer.pc = "train_fruit_model"
  /\ \E split_ok \in BOOLEAN :
       LET o == TrainFruitModel(trainer.df, split_ok)
       IN IF o.exc # NoExc
            THEN Raise(o.exc)
            ELSE trainer' = [trainer EXCEPT
                               !.pc = "train_organic_models",
                               !.fruit_model = o.model,
                               !.label_encoder = o.label_encoder,
                               !.fits = o.fits]
  /\ UNCHANGED <<files, cacheVars, request, response, threadVars>>

TrTrainOrganicModels ==
  /\ trainer.pc = "train_organic_models"
  /\ \E fail_at \in 0..MaxRows :
       LET o == TrainOrganicModels(trainer.df, fail_at)
       IN IF o.exc # NoExc
            THEN trainer' = [trainer EXCEPT
                               !.pc = "raised", !.exc = o.exc,
                               !.fits = trainer.fits + o.fits]
            ELSE trainer' = [trainer EXCEPT
                               !.pc = "save_models",
                               !.organic_models = o.organic_models,
                               !.fits = trainer.fits + o.fits]
  /\ UNCHANGED <<files, cacheVars, request, response, threadVars>>

TrSaveModels ==
  /\ trainer.pc = "save_models"
  /\ \E dump_fail \in 0..Len(Artifacts) :
       LET o == SaveTrained(trainer.fruit_model, trainer.label_encoder,
                            trainer.organic_models, dump_fail)
       IN /\ trainer' = [trainer EXCEPT
                           !.pc = IF o.exc = NoExc THEN "done" ELSE "raised",
                           !.exc = o.exc,
                           !.saved = o.saved]
          /\ files' = [a \in ArtifactSet |->
                         IF o.saved[a].saved THEN "ok" ELSE files[a]]
  /\ UNCHANGED <<cacheVars, request, response, threadVars>>

NextTrainer ==
  \/ TrLoadData
  \/ TrTrainFruitModel
  \/ TrTrainOrganicModels
  \/ TrSaveModels

SpecTrainer == InitTrainer /\ [][NextTrainer]_vars

\* ================================================================== claims
IsCollection(sv) == sv.coll \in {"list", "tuple", "ndarray"}

\* validate_spectral_input rejects the input
InvalidInput(sv) == \A v \in ValidateSpectralInput(sv) : v.exc # NoExc

\* the request is a POST /api/scan whose body is an object with an array
\* under spectral_values
ScanOfArray ==
  /\ request.op = "scan"
  /\ request.body.kind = "object"
  /\ request.body.hasKey
  /\ request.body.value.coll = "list"

AllAbsent == \A a \in ArtifactSet : files[a] = "absent"

\* C1: a call of predict_spectrum on an input that validation rejects ends
\* with the exception of the validation, never with FileNotFoundError, and
\* has not called load_models, tested or read an artifact file, run a model
\* or changed the cache, whatever the state of the artifact files.
C1_ValidationBeforeModels ==
  (response.op = "predict" /\ InvalidInput(request.input)) =>
    /\ response.exc \in {v.exc : v \in ValidateSpectralInput(request.input)}
    /\ ~IsInstance(response.exc, "FileNotFoundError")
    /\ response.loadCalls = 0
    /\ response.exists = 0
    /\ response.reads = << >>
    /\ response.runs = 0
    /\ response.ret = response.before
    /\ DOMAIN response.result = {}

C1_Witness ==
  /\ response.op = "predict"
  /\ InvalidInput(request.input)
  /\ response.exc.type = "ValueError"
  /\ AllAbsent
  /\ ~CacheFull(Cache)

\* C2: as long as no load_models call has failed, each artifact is loaded
\* from disk at most once in the process, however the threads interleave
\* (a second load of an artifact is also a reassignment of its cache entry).
C2_LoadedAtMostOnce ==
  ~loadFailed => \A a \in ArtifactSet : diskLoads[a] <= 1

\* C3: a load_models call that finds the cache populated tests and reads no
\* file and returns the cached objects, /api/health then answers 200
\* healthy, and a populated cache keeps its three objects in every later
\* step, whatever happens to the files.
C3_LazySingleton ==
  /\ []((response.loadCalls = 1 /\ CacheFull(response.before)) =>
          /\ response.exists = 0
          /\ response.reads = << >>
          /\ response.ret = response.before
          /\ (response.op = "health" =>
                /\ response.status = 200
                /\ response.json.status = "healthy"
                /\ response.json.models_loaded))
  /\ [][CacheFull(Cache) => (Cache' = Cache)]_vars

C3_Witness ==
  /\ response.op = "health"
  /\ response.status = 200
  /\ CacheFull(response.before)
  /\ AllAbsent

\* C4: a POST /api/scan that fails after its input passed validation (in
\* load_models or in the model stage) answers 500 with a message that does
\* not contain the text of the exception.
C4_GenericFailureMessage ==
  (response.op = "scan" /\ response.loadCalls = 1 /\ response.exc # NoExc) =>
    /\ response.status = 500
    /\ ~Contains(response.json.message, Str(response.exc))

PredictionKeys ==
  {"fruit", "organic_status", "fruit_confidence", "organic_confidence"}

\* the records predict_spectrum can return
NormalResults ==
  {m.result : m \in {x \in ModelStage(<< >>,
                                      [organic |-> [id |-> 1, content |-> "ok"]]) :
                       x.exc = NoExc}}

\* C5: predict_batch returns one entry per sample, in order, the entry at
\* 0-based position i with sample_index i; an entry is either an error
\* record (sample_index and error only; for a sample validation rejects,
\* the text of the validation error) or the record predict_spectrum returns
\* for a sample that passes validation, plus sample_index; with usable
\* models loaded every sample that passes validation gets such a record.
C5_BatchNeverAborts ==
  response.op = "batch" =>
    /\ response.exc = NoExc
    /\ Len(response.result) = Len(request.batch)
    /\ \A i \in 1..Len(request.batch) :
         LET e == response.result[i]
             sample == request.batch[i]
         IN /\ e.sample_index = i - 1
            /\ \/ /\ DOMAIN e = {"sample_index", "error"}
                  /\ InvalidInput(sample) =>
                       e.error \in {Str(v.exc) :
                                      v \in ValidateSpectralInput(sample)}
               \/ /\ DOMAIN e = PredictionKeys \cup {"sample_index"}
                  /\ ~InvalidInput(sample)
                  /\ [k \in PredictionKeys |-> e[k]] \in NormalResults
            /\ (/\ ~InvalidInput(sample)
                /\ CacheFull(response.before)
                /\ response.before.organic.content = "ok")
                 => "error" \notin DOMAIN e

C5_Witness ==
  /\ response.op = "batch"
  /\ Len(response.result) = 2
  /\ "error" \in DOMAIN response.result[1]
  /\ "fruit" \in DOMAIN response.result[2]
  /\ response.result[2].sample_index = 1

\* C6: a POST /api/scan whose body is not JSON, is JSON but not an object,
\* or is an object without spectral_values or with one that is not an array
\* answers 400 and does not call the predictor.
C6_MalformedBodyIs400 ==
  (response.op = "scan" /\ ~ScanOfArray) =>
    /\ response.status = 400
    /\ response.predictCalls = 0

\* C7: predict_spectrum on a list or tuple of n # 8 elements raises a
\* ValueError whose text states n, before any model access, and POST
\* /api/scan with an array of n # 8 elements answers 400 with n in the
\* message, whatever the elements and the artifact files are.
C7_WrongCount ==
  /\ (/\ response.op = "predict"
      /\ request.input.coll \in {"list", "tuple"}
      /\ Len(request.input.elems) # NumChannels) =>
       /\ response.exc.type = "ValueError"
       /\ Contains(Str(response.exc), <<ToString(Len(request.input.elems))>>)
       /\ response.loadCalls = 0
  /\ (/\ response.op = "scan"
      /\ ScanOfArray
      /\ Len(request.body.value.elems) # NumChannels) =>
       /\ response.status = 400
       /\ Contains(response.json.message,
                   <<ToString(Len(request.body.value.elems))>>)
       /\ response.predictCalls = 0

C7_Witness ==
  /\ response.op = "predict"
  /\ request.input = Coll("list", Uniform(NumChannels + 1, "str"))
  /\ response.exc.type = "ValueError"
  /\ AllAbsent

\* an element that is not a number (a string, None, a list, a dict)
NonNumeric(e) == TypeName(e) \notin {"int", "float", "bool"}

\* C8: predict_spectrum on 8 elements of which one is not a number raises
\* a TypeError whose text names the index of such an element, and returns
\* no record.
C8_NonNumericIsTypeError ==
  (/\ response.op = "predict"
   /\ IsCollection(request.input)
   /\ Len(request.input.elems) = NumChannels
   /\ \E i \in 1..NumChannels : NonNumeric(request.input.elems[i])) =>
    /\ response.exc.type = "TypeError"
    /\ \E i \in 1..NumChannels :
         /\ NonNumeric(request.input.elems[i])
         /\ Contains(Str(response.exc), <<ToString(i - 1)>>)
    /\ DOMAIN response.result = {}

NonFinite(e) == e \in {"nan", "inf", "ninf"}

\* C9: predict_spectrum on 8 numbers of which one is NaN or an infinity
\* raises a ValueError and runs no model, and POST /api/scan with such an
\* array answers 400.
C9_NonFiniteIsValueError ==
  /\ (/\ response.op = "predict"
      /\ IsCollection(request.input)
      /\ Len(request.input.elems) = NumChannels
      /\ \A i \in 1..NumChannels : ~NonNumeric(request.input.elems[i])
      /\ \E i \in 1..NumChannels : NonFinite(request.input.elems[i])) =>
       /\ response.exc.type = "ValueError"
       /\ response.runs = 0
  /\ (/\ response.op = "scan"
      /\ ScanOfArray
      /\ Len(request.body.value.elems) = NumChannels
      /\ \A i \in 1..NumChannels : ~NonNumeric(request.body.value.elems[i])
      /\ \E i \in 1..NumChannels : NonFinite(request.body.value.elems[i])) =>
       response.status = 400

\* a JSON element that is not a finite number
NotFiniteNumber(e) == NonNumeric(e) \/ NonFinite(e) \/ e = "bool"

\* C10: POST /api/scan with an array of 8 elements of which one is not a
\* finite number answers 400, names the lowest index of such an element in
\* the message, and does not call the predictor.
C10_ScanRejectsNonFinite ==
  (/\ response.op = "scan"
   /\ ScanOfArray
   /\ Len(request.body.value.elems) = NumChannels
   /\ \E i \in 1..NumChannels : NotFiniteNumber(request.body.value.elems[i])) =>
    /\ response.status = 400
    /\ Contains(response.json.message,
                <<ToString(Min({i \in 1..NumChannels :
                                  NotFiniteNumber(request.body.value.elems[i])})
                           - 1)>>)
    /\ response.predictCalls = 0

SomeAbsent == \E a \in ArtifactSet : files[a] = "absent"

\* the request is a POST /api/scan with an array of 8 finite floats
ScanOfFloats ==
  /\ ScanOfArray
  /\ Len(request.body.value.elems) = NumChannels
  /\ \A i \in 1..NumChannels : request.body.value.elems[i] \in {"num", "out"}

\* C11: a handler that runs while the cache is empty and an artifact file
\* is absent: its load_models call raises FileNotFoundError after testing
\* the files up to the first absent one, reads no artifact and leaves the
\* cache empty; POST /api/scan with 8 finite floats answers 500, and GET
\* /api/health answers 500 with status unhealthy and models_loaded false.
C11_ModelsNotFound ==
  [][(EmptyCache /\ SomeAbsent /\ response' # response) =>
       /\ response'.loadCalls = 1 =>
            /\ response'.exc.type = "FileNotFoundError"
            /\ response'.exists = FirstAbsent(files)
            /\ response'.reads = << >>
            /\ response'.runs = 0
            /\ EmptyCache'
       /\ (response'.op = "scan" /\ ScanOfFloats) =>
            /\ response'.loadCalls = 1
            /\ response'.status = 500
       /\ response'.op = "health" =>
            /\ response'.loadCalls = 1
            /\ response'.status = 500
            /\ response'.json.status = "unhealthy"
            /\ response'.json.models_loaded = FALSE]_vars

C11_Witness ==
  /\ response.op = "health"
  /\ response.status = 500
  /\ response.exc.type = "FileNotFoundError"
  /\ files.fruit = "ok" /\ files.encoder = "absent"
  /\ EmptyCache

RoutingError ==
  /\ response.op = "http"
  /\ MatchRequest(request.method, request.path).exc # ""

HasEnvelope ==
  {"error", "message"} \subseteq DOMAIN response.json

\* C12: a request to a path no rule matches is answered 404, a request with
\* a method its rule does not allow (GET /api/scan, POST /api/health) is
\* answered 405, both with a JSON body holding error and message, and a
\* routing error is never answered 500.
C12_RoutingErrors ==
  RoutingError =>
    /\ response.status =
         MatchRequest(request.method, request.path).code
    /\ HasEnvelope
    /\ response.status # 500

\* validate_spectral_input accepts the input
ValidInput(sv) == \A v \in ValidateSpectralInput(sv) : v.exc = NoExc

\* the three artifacts are in the cache, the organic mapping being the one
\* trained with the label encoder
ModelsLoaded(cache) == CacheFull(cache) /\ cache.organic.content = "ok"

FiniteOutOfRange(sv) ==
  /\ sv.coll = "list"
  /\ Len(sv.elems) = NumChannels
  /\ \A i \in 1..NumChannels : sv.elems[i] \in {"num", "out", "bigint"}
  /\ \E i \in 1..NumChannels : sv.elems[i] \in {"out", "bigint"}

\* C14: validate_spectral_input accepts every list of 8 finite numbers with
\* a value outside [0, 1], logging a warning, so predict_spectrum goes on to
\* load the models; and POST /api/scan with such a list does not answer 400
\* and answers 200 when the models are available.
C14_OutOfRangeTolerated ==
  /\ (response.op = "predict" /\ FiniteOutOfRange(request.input)) =>
       /\ ValidInput(request.input)
       /\ response.warned
       /\ response.loadCalls = 1
  /\ (response.op = "scan" /\ ScanOfArray
        /\ FiniteOutOfRange(request.body.value)) =>
       /\ response.status # 400
       /\ ModelsLoaded(response.ret) => response.status = 200

\* the required columns the dataset of the run lacks
MissingColumns == Range(RequiredColumns) \ trainer.dataset.columns

\* load_data has read the dataset file and returned or raised
DataLoaded == trainer.pc # "load_data" /\ trainer.dataset.exists

NothingSaved == \A a \in ArtifactSet : ~trainer.saved[a].saved

\* C15: when the dataset lacks one of the columns F1..F8, Fruit, Organic,
\* load_data raises the ValueError "Dataset is missing required columns"
\* whose text lists every missing column, no classifier has been fitted
\* and no artifact has been written.
C15_FailFast ==
  (DataLoaded /\ MissingColumns # {}) =>
    /\ trainer.pc = "raised"
    /\ trainer.exc.type = "ValueError"
    /\ Contains(Str(trainer.exc), <<"Dataset is missing required columns: ">>)
    /\ \A col \in MissingColumns : Contains(Str(trainer.exc), <<col>>)
    /\ trainer.fits = 0
    /\ NothingSaved

\* label_encoder.inverse_transform of a class of the fruit model
InverseTransform(label_encoder, class) == label_encoder[class + 1]

\* C16: the artifacts a training run has written are consistent: the keys
\* of the saved organic mapping are the classes of the saved label encoder,
\* every class the saved fruit model predicts decodes to a key of the
\* mapping, and an artifact is written only after the fruit model and one
\* organic model for every fruit of the dataset have been fitted.
C16_ConsistentArtifacts ==
  LET saved == trainer.saved
  IN /\ (saved.encoder.saved /\ saved.organic.saved) =>
          saved.organic.value = Range(saved.encoder.value)
     /\ (saved.fruit.saved /\ saved.encoder.saved /\ saved.organic.saved) =>
          \A class \in saved.fruit.value :
            /\ class + 1 \in DOMAIN saved.encoder.value
            /\ InverseTransform(saved.encoder.value, class)
                 \in saved.organic.value
     /\ ~NothingSaved =>
          /\ trainer.fits = 1 + Cardinality(Range(trainer.dataset.fruit))
          /\ saved.fruit.saved
          /\ saved.fruit.value # {}

C16_Witness ==
  /\ trainer.pc = "done"
  /\ \A a \in ArtifactSet : trainer.saved[a].saved
  /\ trainer.dataset.fruit = <<"Tomato", "Apple", "Tomato">>
  /\ trainer.saved.encoder.value = <<"Apple", "Tomato">>
  /\ trainer.fits = 3

\* C17: the three cache entries are always all None or all set, whatever
\* load_models calls have run and however they ended; in particular a
\* load_models call that raised leaves no entry set.
C17_AllOrNothing == EmptyCache \/ CacheFull(Cache)

\* the request passes the checks the route makes before it calls
\* predict_spectrum: a JSON object with a list of 8 elements under
\* spectral_values, each an int or float strictly between the infinities
PassesTransportChecks ==
  /\ ScanOfArray
  /\ Len(request.body.value.elems) = NumChannels
  /\ FirstRejected(request.body.value.elems) = 0

\* C18: POST /api/scan with spectral_values that pass the route's checks:
\* validate_spectral_input accepts the values, predict_spectrum is called
\* and raises neither ValueError nor TypeError, and the answer is 200 or
\* 500.
C18_RouteAtLeastAsStrict ==
  (response.op = "scan" /\ PassesTransportChecks) =>
    /\ ValidInput(request.body.value)
    /\ response.predictCalls = 1
    /\ response.exc.type \notin {"ValueError", "TypeError"}
    /\ response.status \in {200, 500}

====
